---- MODULE Spec2Model ----
(***************************************************************************)
(* The run-counter store of loguru_rich_sink (sink.py: setup, read, write, *)
(* increment), the exit hook (__main__.py: on_exit) and the two sinks      *)
(* (sink.py: RichSink, rich_sink), as a state machine over the file system *)
(* entries logs/ and logs/run.txt and the memory of one Python process.    *)
(***************************************************************************)
EXTENDS Integers, Sequences, FiniteSets, TLC

VARIABLES
    pc,          \* "start" (interpreter not yet importing), "running", "exited"
    logsDir,     \* LOGS_DIR.exists()
    runFile,     \* RUN_FILE: Absent, or Some(text) with text a sequence of characters
    last,        \* the last event: a call of the process (name, argument, exception,
                 \* return value), or op = "external" for a change made from outside
    startRun,    \* the value setup() returned when this process imported the package
    streakBase,  \* Some(stored value before the current unbroken run of increment() calls)
    streakLen,   \* number of increment() calls in that run
    sinkRun,     \* RichSink.run of the sink instance in use, None when no instance exists
    shownRich,   \* run number of the last panel printed by RichSink.__call__ of that instance
    shownFn,     \* run number of the last panel printed by rich_sink in this process
    exitMsg,     \* N of the last "Run N Completed" message logged in this process
    rpc,         \* per racing process: the line of increment() it is about to execute
    rrun,        \* per racing process: its local variable `run`
    rbase        \* the value the run file held when the race started

vars == <<pc, logsDir, runFile, last, startRun, streakBase, streakLen, sinkRun, shownRich,
          shownFn, exitMsg, rpc, rrun, rbase>>

storeVars == <<logsDir, runFile>>
sinkVars == <<sinkRun, shownRich, shownFn>>
raceVars == <<rpc, rrun, rbase>>

----------------------------------------------------------------------------
(* Bounds of the model *)

MaxInit == 2        \* run files found at interpreter start hold 0..MaxInit
MaxWrite == 10      \* write() is called with arguments up to MaxWrite
MaxNeg == 1         \* ... and down to -MaxNeg
MaxVal == 12        \* increment() and on_exit() are not called past this stored value
MaxSinkWrite == 2   \* the same three bounds for the specification of the sinks
MaxSinkVal == 3
MaxRaceInit == 9    \* the race starts from a stored value in 0..MaxRaceInit

----------------------------------------------------------------------------
(* Python values *)

None == <<>>
Some(v) == <<v>>
Absent == <<>>

Procs == {1, 2}

DigitChars == <<"0", "1", "2", "3", "4", "5", "6", "7", "8", "9">>
IsDigit(c) == \E i \in 1..10 : DigitChars[i] = c
DigitVal(c) == (CHOOSE i \in 1..10 : DigitChars[i] = c) - 1
IsSpace(c) == c \in {" ", "\n"}

(* str(run) for an int: decimal digits, most significant first, "-" for a negative *)
RECURSIVE StrOf(_)
StrOf(n) ==
    IF n < 0 THEN <<"-">> \o StrOf(0 - n)
    ELSE IF n < 10 THEN <<DigitChars[n + 1]>>
    ELSE StrOf(n \div 10) \o <<DigitChars[(n % 10) + 1]>>

(* int(text): surrounding whitespace is stripped, one sign is allowed, then   *)
(* digits, with single underscores allowed between digits.                    *)
RECURSIVE LStrip(_)
LStrip(s) == IF s # <<>> /\ IsSpace(Head(s)) THEN LStrip(Tail(s)) ELSE s

RECURSIVE RStrip(_)
RStrip(s) ==
    IF s # <<>> /\ IsSpace(s[Len(s)]) THEN RStrip(SubSeq(s, 1, Len(s) - 1)) ELSE s

Strip(s) == RStrip(LStrip(s))

Unsigned(s) == IF s # <<>> /\ Head(s) \in {"+", "-"} THEN Tail(s) ELSE s

Sign(s) == IF s # <<>> /\ Head(s) = "-" THEN 0 - 1 ELSE 1

IsDigits(d) ==
    /\ d # <<>>
    /\ IsDigit(d[1])
    /\ IsDigit(d[Len(d)])
    /\ \A i \in 1..Len(d) :
          \/ IsDigit(d[i])
          \/ (d[i] = "_" /\ i > 1 /\ IsDigit(d[i - 1]))

RECURSIVE DigitsVal(_)
DigitsVal(d) ==
    IF d = <<>> THEN 0
    ELSE LET front == SubSeq(d, 1, Len(d) - 1)
             c == d[Len(d)]
         IN  IF c = "_" THEN DigitsVal(front) ELSE DigitsVal(front) * 10 + DigitVal(c)

IntParses(s) == IsDigits(Unsigned(Strip(s)))
IntOf(s) == Sign(Strip(s)) * DigitsVal(Unsigned(Strip(s)))

----------------------------------------------------------------------------
(* The functions of sink.py on the file system (d = LOGS_DIR exists,          *)
(* f = RUN_FILE).  Each yields the file system it leaves, the exception it    *)
(* raises ("none" when it returns) and its return value.                      *)

Result(d, f, e, r) == [dir |-> d, file |-> f, exc |-> e, ret |-> r]

(* reading the file with a parser that takes unparsable text as 0 *)
ReadFileLenient(d, f) ==
    IF f = Absent THEN Result(d, f, "FileNotFoundError", None)
    ELSE Result(d, f, "none", Some(IF IntParses(f[1]) THEN IntOf(f[1]) ELSE 0))

(* open(RUN_FILE, "r"); int(f.read()) *)
ReadFile(d, f) ==
    IF f = Absent THEN Result(d, f, "FileNotFoundError", None)
    ELSE IF IntParses(f[1]) THEN Result(d, f, "none", Some(IntOf(f[1])))
    ELSE Result(d, f, "ValueError", None)

(* setup() without the exists() test of line 87: "0" is written on every call *)
setupOverwrite(d, f) == ReadFile(TRUE, Some(<<"0">>))

(* setup(): mkdir when the directory is missing, "0" when the file is missing, *)
(* then the file is read back.                                                 *)
setup(d, f) ==
    LET f1 == IF f = Absent THEN Some(<<"0">>) ELSE f
    IN  ReadFile(TRUE, f1)

(* sink.py with `console` bound at module level *)
ConsoleBoundAtImport == TRUE

(* The name `console` is bound in sink.py only by the script block at the end  *)
(* of the file, which does not run when the module is imported.                *)
ConsoleBound == FALSE

(* lines 102-104, given the outcome s of line 101's setup() *)
ReadAfterSetup(s) == IF s.exc # "none" THEN s ELSE ReadFile(s.dir, s.file)

(* read(): with the file missing, line 100 evaluates the global `console`      *)
(* before line 101 calls setup().                                              *)
read(d, f) ==
    IF f = Absent
    THEN IF ConsoleBound THEN ReadAfterSetup(setup(d, f))
         ELSE Result(d, f, "NameError", None)
    ELSE ReadFile(d, f)

(* write() opening the file in mode "a": the text is appended *)
writeAppend(d, f, run) ==
    IF ~d THEN Result(d, f, "FileNotFoundError", None)
    ELSE Result(d, Some((IF f = Absent THEN <<>> ELSE f[1]) \o StrOf(run)), "none", None)

(* write() that opens the file in mode "w" and never calls f.write *)
writeNothing(d, f, run) ==
    IF ~d THEN Result(d, f, "FileNotFoundError", None)
    ELSE Result(d, Some(<<>>), "none", None)

(* write(run): open(RUN_FILE, "w") truncates or creates the file; its          *)
(* directory must exist.                                                       *)
write(d, f, run) ==
    IF ~d THEN Result(d, f, "FileNotFoundError", None)
    ELSE Result(d, Some(StrOf(run)), "none", None)

(* `return run` after a call w that may have raised *)
Returning(w, run) == IF w.exc # "none" THEN w ELSE [w EXCEPT !.ret = Some(run)]

(* line 116 dropped: the value read is written back *)
IncrementedNot(run) == run

(* run += 1 *)
Incremented(run) == run + 1

(* increment() returning the value it read instead of the value it wrote *)
IncrementReturnsOld(r) ==
    IF r.exc # "none" THEN r
    ELSE Returning(write(r.dir, r.file, Incremented(r.ret[1])), r.ret[1])

(* increment(), lines 116-118, given the outcome r of line 115's read() *)
IncrementAfterRead(r) ==
    IF r.exc # "none" THEN r
    ELSE Returning(write(r.dir, r.file, Incremented(r.ret[1])), Incremented(r.ret[1]))

(* increment(), lines 115-118 *)
increment(d, f) == IncrementAfterRead(read(d, f))

----------------------------------------------------------------------------
(* on_exit() of __main__.py.  `logged` lists the N of every                    *)
(* "Run N Completed" message it passed to logger.info.                         *)

Logged(r, msgs) ==
    [dir |-> r.dir, file |-> r.file, exc |-> r.exc, ret |-> None, logged |-> msgs]

(* lines 96-97, given the outcome r of line 95's read() *)
OnExitTryAfterRead(r) ==
    IF r.exc # "none" THEN Logged(r, <<>>)
    ELSE Logged(increment(r.dir, r.file), <<r.ret[1]>>)

(* lines 95-97: the body of the try *)
OnExitTry(d, f) == OnExitTryAfterRead(read(d, f))

(* line 101, given the outcome s of line 100's setup() and the messages       *)
(* logged before the exception                                                 *)
OnExitExceptAfterSetup(s, msgs) ==
    IF s.exc # "none" THEN Logged(s, msgs)
    ELSE Logged(s, msgs \o <<s.ret[1]>>)

(* lines 98-101: the handler; it takes FileNotFoundError only *)
OnExitExcept(t) ==
    IF t.exc = "FileNotFoundError"
    THEN OnExitExceptAfterSetup(setup(t.dir, t.file), t.logged)
    ELSE t

(* line 102, given the outcome h of the try statement *)
OnExitLast(h) ==
    IF h.exc # "none" THEN h
    ELSE Logged(increment(h.dir, h.file), h.logged)

(* on_exit() that always falls back to a freshly initialized counter *)
on_exitFresh(d, f) ==
    LET s == setupOverwrite(d, f)
    IN  Logged(increment(s.dir, s.file), <<0>>)

(* lines 94-102 *)
on_exit(d, f) == OnExitLast(OnExitExcept(OnExitTry(d, f)))

----------------------------------------------------------------------------
(* Values the bounded calls range over *)

FileVal(f) == IF f # Absent /\ IntParses(f[1]) THEN IntOf(f[1]) ELSE 0

WriteVals == (0 - MaxNeg)..MaxWrite
SinkWriteVals == 0..MaxSinkWrite

NoCall == [op |-> "none", arg |-> None, exc |-> "none", ret |-> None]
Call(op, arg, r) == [op |-> op, arg |-> arg, exc |-> r.exc, ret |-> r.ret]

Store(r) == logsDir' = r.dir /\ runFile' = r.file
NoStreak == streakBase' = None /\ streakLen' = 0

----------------------------------------------------------------------------
(* The state before the interpreter starts: a project directory with no       *)
(* logs/, with an empty logs/, or with a run file left by earlier runs.        *)

InitStore ==
    \/ logsDir = FALSE /\ runFile = Absent
    \/ logsDir = TRUE /\ runFile = Absent
    \/ logsDir = TRUE /\ \E v \in 0..MaxInit : runFile = Some(StrOf(v))

InitProcess ==
    /\ pc = "start"
    /\ last = NoCall
    /\ startRun = None
    /\ streakBase = None
    /\ streakLen = 0
    /\ sinkRun = None
    /\ shownRich = None
    /\ shownFn = None
    /\ exitMsg = None

InitRaceIdle ==
    /\ rpc = [p \in Procs |-> "idle"]
    /\ rrun = [p \in Procs |-> None]
    /\ rbase = None

Init == InitStore /\ InitProcess /\ InitRaceIdle

(* `import loguru_rich_sink`: __init__.py line 30 calls setup().  A new       *)
(* interpreter starts with none of the previous one's memory.                  *)
Import ==
    /\ pc \in {"start", "exited"}
    /\ \E r \in {setup(logsDir, runFile)} :
           /\ Store(r)
           /\ last' = Call("import", None, r)
           /\ startRun' = r.ret
           /\ pc' = IF r.exc = "none" THEN "running" ELSE "exited"
    /\ NoStreak
    /\ sinkRun' = None /\ shownRich' = None /\ shownFn' = None /\ exitMsg' = None
    /\ UNCHANGED raceVars

SetupOp ==
    /\ pc = "running"
    /\ \E r \in {setup(logsDir, runFile)} :
           Store(r) /\ last' = Call("setup", None, r)
    /\ NoStreak
    /\ UNCHANGED <<pc, startRun, sinkVars, exitMsg, raceVars>>

ReadOp ==
    /\ pc = "running"
    /\ \E r \in {read(logsDir, runFile)} :
           Store(r) /\ last' = Call("read", None, r)
    /\ NoStreak
    /\ UNCHANGED <<pc, startRun, sinkVars, exitMsg, raceVars>>

WriteOp(n) ==
    /\ pc = "running"
    /\ \E r \in {write(logsDir, runFile, n)} :
           Store(r) /\ last' = Call("write", Some(n), r)
    /\ NoStreak
    /\ UNCHANGED <<pc, startRun, sinkVars, exitMsg, raceVars>>

IncrementOp(cap) ==
    /\ pc = "running"
    /\ FileVal(runFile) < cap
    /\ \E r \in {increment(logsDir, runFile)} :
           /\ Store(r)
           /\ last' = Call("increment", None, r)
           /\ IF r.exc # "none"
              THEN NoStreak
              ELSE IF last.op = "increment" /\ last.exc = "none"
              THEN streakBase' = streakBase /\ streakLen' = streakLen + 1
              ELSE streakBase' = Some(r.ret[1] - 1) /\ streakLen' = 1
    /\ UNCHANGED <<pc, startRun, sinkVars, exitMsg, raceVars>>

(* on_exit(), called by the program (it is exported) or by atexit.  Its       *)
(* logger.info calls reach RichSink.__call__ when get_logger installed one.   *)
OnExitEffect(cap) ==
    /\ FileVal(runFile) < cap - 1
    /\ \E r \in {on_exit(logsDir, runFile)} :
           /\ Store(r)
           /\ last' = Call("on_exit", None, r)
           /\ exitMsg' = IF r.logged = <<>> THEN exitMsg
                         ELSE Some(r.logged[Len(r.logged)])
           /\ shownRich' = IF r.logged # <<>> /\ sinkRun # None THEN sinkRun
                           ELSE shownRich
    /\ NoStreak
    /\ UNCHANGED <<startRun, sinkRun, shownFn, raceVars>>

OnExitCall(cap) ==
    /\ pc = "running"
    /\ OnExitEffect(cap)
    /\ pc' = pc

AtExit(cap) ==
    /\ pc = "running"
    /\ OnExitEffect(cap)
    /\ pc' = "exited"

Next ==
    \/ Import
    \/ SetupOp
    \/ ReadOp
    \/ \E n \in WriteVals : WriteOp(n)
    \/ IncrementOp(MaxVal)
    \/ OnExitCall(MaxVal)
    \/ AtExit(MaxVal)

Spec == Init /\ [][Next]_vars

----------------------------------------------------------------------------
(* The store with its environment: while the process runs, somebody removes   *)
(* logs/run.txt, removes logs/ altogether, or edits the run file by hand.      *)

External == [op |-> "external", arg |-> None, exc |-> "none", ret |-> None]

UnparsableTexts == {<<>>, <<"x">>, <<"1", "x">>, <<"-">>, <<"1", "_", "_", "0">>}
ParsableTexts == {<<"7", "\n">>, <<"+", "7">>, <<"0", "7">>, <<"1", "_", "0">>}
ManualTexts == UnparsableTexts \cup ParsableTexts

EnvUnlink ==
    /\ runFile # Absent
    /\ runFile' = Absent
    /\ last' = External
    /\ UNCHANGED <<pc, logsDir, startRun, streakBase, streakLen, sinkVars, exitMsg, raceVars>>

EnvRmtree ==
    /\ logsDir
    /\ logsDir' = FALSE
    /\ runFile' = Absent
    /\ last' = External
    /\ UNCHANGED <<pc, startRun, streakBase, streakLen, sinkVars, exitMsg, raceVars>>

EnvEdit(text) ==
    /\ runFile # Absent
    /\ runFile' = Some(text)
    /\ last' = External
    /\ UNCHANGED <<pc, logsDir, startRun, streakBase, streakLen, sinkVars, exitMsg, raceVars>>

NextEnv ==
    \/ Next
    \/ EnvUnlink
    \/ EnvRmtree
    \/ \E text \in ManualTexts : EnvEdit(text)

SpecEnv == Init /\ [][NextEnv]_vars

----------------------------------------------------------------------------
(* The sinks *)

(* lines 156-157: the handler takes FileNotFoundError only *)
RichSinkInitExcept(r) ==
    IF r.exc = "FileNotFoundError" THEN setup(r.dir, r.file) ELSE r

(* RichSink.__init__(run, console): lines 153-158 *)
RichSinkInit(d, f, run) ==
    IF run = None THEN RichSinkInitExcept(read(d, f))
    ELSE Result(d, f, "none", run)

(* get_logger(), line 54, given the outcome s of line 49's setup() *)
GetLoggerAfterSetup(s) ==
    IF s.exc # "none" THEN s ELSE RichSinkInit(s.dir, s.file, None)

(* get_logger(): run = setup(), then RichSink() is built and installed *)
get_logger(d, f) == GetLoggerAfterSetup(setup(d, f))

(* RichSink.__call__ reading the run file for its subtitle, as rich_sink does *)
RichSinkSubtitleReads(d, f, selfRun) == read(d, f)

(* RichSink.__call__, line 176: the subtitle shows self.run *)
RichSinkSubtitle(d, f, selfRun) == Result(d, f, "none", selfRun)

(* rich_sink, lines 212-214: the subtitle shows read() *)
rich_sinkSubtitle(d, f) == read(d, f)

GetLogger ==
    /\ pc = "running"
    /\ \E r \in {get_logger(logsDir, runFile)} :
           /\ Store(r)
           /\ last' = Call("get_logger", None, [r EXCEPT !.ret = None])
           /\ sinkRun' = IF r.exc = "none" THEN r.ret ELSE sinkRun
           /\ shownRich' = IF r.exc = "none" THEN None ELSE shownRich
    /\ NoStreak
    /\ UNCHANGED <<pc, startRun, shownFn, exitMsg, raceVars>>

(* RichSink(run=n), built by the program and added to the logger *)
NewRichSink(arg) ==
    /\ pc = "running"
    /\ \E r \in {RichSinkInit(logsDir, runFile, arg)} :
           /\ Store(r)
           /\ last' = Call("RichSink", arg, [r EXCEPT !.ret = None])
           /\ sinkRun' = IF r.exc = "none" THEN r.ret ELSE sinkRun
           /\ shownRich' = IF r.exc = "none" THEN None ELSE shownRich
    /\ NoStreak
    /\ UNCHANGED <<pc, startRun, shownFn, exitMsg, raceVars>>

(* a record reaches RichSink.__call__ *)
RichSinkCall ==
    /\ pc = "running"
    /\ sinkRun # None
    /\ \E r \in {RichSinkSubtitle(logsDir, runFile, sinkRun)} :
           /\ Store(r)
           /\ last' = Call("RichSink.__call__", None, [r EXCEPT !.ret = None])
           /\ shownRich' = IF r.exc = "none" THEN r.ret ELSE shownRich
    /\ NoStreak
    /\ UNCHANGED <<pc, startRun, sinkRun, shownFn, exitMsg, raceVars>>

(* a record reaches rich_sink *)
RichSinkFn ==
    /\ pc = "running"
    /\ \E r \in {rich_sinkSubtitle(logsDir, runFile)} :
           /\ Store(r)
           /\ last' = Call("rich_sink", None, [r EXCEPT !.ret = None])
           /\ shownFn' = IF r.exc = "none" THEN r.ret ELSE shownFn
    /\ NoStreak
    /\ UNCHANGED <<pc, startRun, sinkRun, shownRich, exitMsg, raceVars>>

NextSink ==
    \/ Import
    \/ GetLogger
    \/ \E arg \in {None} \cup {Some(n) : n \in SinkWriteVals} : NewRichSink(arg)
    \/ RichSinkCall
    \/ RichSinkFn
    \/ \E n \in SinkWriteVals : WriteOp(n)
    \/ IncrementOp(MaxSinkVal)
    \/ AtExit(MaxSinkVal)

SpecSink == Init /\ [][NextSink]_vars

----------------------------------------------------------------------------
(* Two processes, each executing increment() once on the same run file, line  *)
(* by line.                                                                    *)

InitRace ==
    /\ logsDir = TRUE
    /\ \E v \in 0..MaxRaceInit : runFile = Some(StrOf(v)) /\ rbase = Some(v)
    /\ rpc = [p \in Procs |-> "l115"]
    /\ rrun = [p \in Procs |-> None]
    /\ InitProcess

processVars == <<pc, last, startRun, streakBase, streakLen, sinkVars, exitMsg>>

(* line 115: run = read() *)
RaceRead(p) ==
    /\ rpc[p] = "l115"
    /\ \E r \in {read(logsDir, runFile)} :
           /\ Store(r)
           /\ rrun' = [rrun EXCEPT ![p] = r.ret]
           /\ rpc' = [rpc EXCEPT ![p] = IF r.exc = "none" THEN "l116" ELSE "raised"]
    /\ UNCHANGED <<rbase, processVars>>

(* line 116: run += 1 *)
RaceAdd(p) ==
    /\ rpc[p] = "l116"
    /\ rrun' = [rrun EXCEPT ![p] = Some(Incremented(rrun[p][1]))]
    /\ rpc' = [rpc EXCEPT ![p] = "l117"]
    /\ UNCHANGED <<storeVars, rbase, processVars>>

(* line 117: write(run) *)
RaceWrite(p) ==
    /\ rpc[p] = "l117"
    /\ \E w \in {write(logsDir, runFile, rrun[p][1])} :
           /\ Store(w)
           /\ rpc' = [rpc EXCEPT ![p] = IF w.exc = "none" THEN "l118" ELSE "raised"]
    /\ UNCHANGED <<rrun, rbase, processVars>>

(* line 118: return run *)
RaceReturn(p) ==
    /\ rpc[p] = "l118"
    /\ rpc' = [rpc EXCEPT ![p] = "done"]
    /\ UNCHANGED <<storeVars, rrun, rbase, processVars>>

NextRace ==
    \E p \in Procs :
        \/ RaceRead(p)
        \/ RaceAdd(p)
        \/ RaceWrite(p)
        \/ RaceReturn(p)

SpecRace == InitRace /\ [][NextRace]_vars

----------------------------------------------------------------------------
(* Properties of the store, checked under Spec *)

StoreOk == runFile # Absent /\ IntParses(runFile[1])
IsNatText(s) == s # <<>> /\ \A i \in 1..Len(s) : IsDigit(s[i])

(* C1: every on_exit() leaves the run file holding exactly one more than it   *)
(* held when on_exit() started (1 when the file was absent).                   *)
C1_OnExitIncrementsOnce ==
    [][last'.op = "on_exit" =>
          runFile' = Some(StrOf(IF runFile = Absent THEN 1 ELSE FileVal(runFile) + 1))]_vars

(* C2: after k consecutive increment() calls from stored value v the file     *)
(* holds the decimal text of v+k and the k-th call returned v+k.               *)
C2_IncrementKTimes ==
    (last.op = "increment" /\ last.exc = "none") =>
        /\ streakBase # None
        /\ runFile = Some(StrOf(streakBase[1] + streakLen))
        /\ last.ret = Some(streakBase[1] + streakLen)

C2_Witness ==
    /\ last.op = "increment"
    /\ streakBase = Some(8)
    /\ streakLen = 3
    /\ runFile = Some(<<"1", "1">>)

(* C3: right after write(n) with n >= 0, read() returns n. *)
C3_WriteReadRoundTrip ==
    (last.op = "write" /\ last.exc = "none" /\ last.arg[1] >= 0) =>
        LET r == read(logsDir, runFile)
        IN  r.exc = "none" /\ r.ret = last.arg

C3_Witness ==
    /\ last.op = "write"
    /\ last.arg = Some(10)
    /\ read(logsDir, runFile).ret = Some(10)

(* C4: setup() (also the one run at import) writes "0" only when the run file *)
(* is absent, leaves an existing file as it is, and returns the stored value.  *)
C4_SetupInitializesOnce ==
    [][last'.op \in {"setup", "import"} =>
          /\ logsDir'
          /\ runFile' = (IF runFile = Absent THEN Some(<<"0">>) ELSE runFile)
          /\ last'.exc = "none"
          /\ last'.ret = Some(FileVal(runFile'))]_vars

C4_Witness ==
    /\ last.op = "setup"
    /\ last.ret = Some(5)
    /\ runFile = Some(<<"5">>)

(* C6: no step of setup, read, write, increment or on_exit lowers the stored  *)
(* value.                                                                      *)
C6_Monotonic ==
    [][(StoreOk /\ StoreOk') => FileVal(runFile') >= FileVal(runFile)]_vars

(* C6 as amended: the stored value is never lowered by setup, read,           *)
(* increment, on_exit, or by write(n) with n at least the stored value.        *)
C6_MonotonicExceptLowerWrite ==
    [][(/\ StoreOk /\ StoreOk'
        /\ ~(last'.op = "write" /\ last'.arg[1] < FileVal(runFile)))
          => FileVal(runFile') >= FileVal(runFile)]_vars

C6_Witness ==
    /\ last.op = "on_exit"
    /\ exitMsg = Some(3)
    /\ FileVal(runFile) = 5

(* C7: whenever the run file exists it holds decimal digits only, the text of *)
(* one non-negative integer.                                                   *)
C7_NonNegativeDecimal == runFile # Absent => IsNatText(runFile[1])

(* C7 as amended: from a run file that is absent or holds the text of a       *)
(* non-negative integer, every call other than write(n) with n < 0 leaves     *)
(* the text of a non-negative integer.                                         *)
C7_NonNegativeUnlessNegativeWrite ==
    [][(/\ runFile # Absent => IsNatText(runFile[1])
        /\ ~(last'.op = "write" /\ last'.arg[1] < 0))
          => (runFile' # Absent => IsNatText(runFile'[1]))]_vars

C7_Witness ==
    /\ last.op = "write"
    /\ last.arg = Some(10)
    /\ runFile = Some(<<"1", "0">>)

----------------------------------------------------------------------------
(* Properties of the store in its environment, checked under SpecEnv *)

StoreCall == {"import", "setup", "read", "write", "increment", "on_exit"}

(* C5: read() on a missing run file creates neither logs/ nor the file, and   *)
(* among the calls of the store only setup() (also the one at import) makes   *)
(* a missing run file exist.                                                   *)
C5_OnlySetupCreates ==
    [][runFile = Absent =>
          /\ last'.op = "read" => (runFile' = Absent /\ logsDir' = logsDir)
          /\ (last'.op \in StoreCall /\ runFile' # Absent)
                => last'.op \in {"setup", "import"}]_vars

(* C5 as amended: read() on a missing run file creates neither logs/ nor the  *)
(* file; among the calls of the store a missing run file is made to exist     *)
(* only by setup() (also the one at import) and by write(), which creates it  *)
(* when logs/ exists.                                                          *)
C5_ReadDoesNotCreate ==
    [][runFile = Absent =>
          /\ last'.op = "read" => (runFile' = Absent /\ logsDir' = logsDir)
          /\ (last'.op \in StoreCall /\ runFile' # Absent)
                => \/ last'.op \in {"setup", "import"}
                   \/ last'.op = "write" /\ logsDir]_vars

C5_Witness ==
    /\ last.op = "read"
    /\ last.exc # "none"
    /\ runFile = Absent
    /\ logsDir = FALSE

(* C8: on a run file whose text is no integer, read(), increment() and        *)
(* on_exit() raise the parse error, return nothing and leave the text as it   *)
(* is.                                                                         *)
C8_UnparsableFileRaises ==
    [][(/\ runFile # Absent
        /\ ~IntParses(runFile[1])
        /\ last'.op \in {"read", "increment", "on_exit"})
          => /\ last'.exc = "ValueError"
             /\ last'.ret = None
             /\ runFile' = runFile]_vars

C8_Witness ==
    /\ last.op = "increment"
    /\ last.exc = "ValueError"
    /\ runFile = Some(<<"1", "x">>)

----------------------------------------------------------------------------
(* Properties of the sinks, checked under SpecSink *)

----------------------------------------------------------------------------
(* Properties of the race, checked under SpecRace *)

RaceDone == \A p \in Procs : rpc[p] = "done"

(* C10: when both processes have returned from increment(), the file holds    *)
(* v+1 or v+2, and v+1 (one update lost) does occur.                           *)
C10_RaceFinalValue ==
    RaceDone =>
        \/ runFile = Some(StrOf(rbase[1] + 1))
        \/ runFile = Some(StrOf(rbase[1] + 2))

C10_Witness ==
    /\ RaceDone
    /\ rbase = Some(9)
    /\ runFile = Some(<<"1", "0">>)
    /\ rrun = [p \in Procs |-> Some(10)]

====
